---- MODULE Spec2Model ----
(***************************************************************************)
(* HEMSAEUCC: the relay (server/main.go) and the sealed-packet codec of    *)
(* the client (client-gui/main.go).                                        *)
(*                                                                         *)
(* Strings are sequences of one-character strings, so that the relay's     *)
(* byte-wise prefix test and bbolt's byte-wise key order can be computed.  *)
(***************************************************************************)
EXTENDS Integers, Sequences, FiniteSets, TLC

VARIABLES
    store,    \* bucket "msgs": key -> [data, eid]; eid is a ghost envelope identity
    now,      \* the reading time.Now() gives (nanoseconds)
    reqs,     \* the HTTP requests received so far, each with its position
    log,      \* ghost: the db.Update transactions in the order bbolt ran them
    lastTx,   \* ghost: the bucket before and after the latest transaction
    faults,   \* number of transactions whose commit failed so far
    codec,    \* a recipient client, a message sent to it, and what it opened
    wire,     \* what travels between a client and the relay, and what came of it
    disk,     \* the key files keys/x25519_secret.bin and keys/x25519_public.bin
    gui,      \* the ClientState of the GUI client and the bindings running on it
    cli       \* the latest run of the command-line client

vars == <<store, now, reqs, log, lastTx, faults, codec, wire, disk, gui, cli>>

\* The variables of the relay, and those of the clients besides codec.
relayVars == <<store, now, reqs, log, lastTx, faults>>
clientVars == <<wire, disk, gui, cli>>

\* A part of the system that does not run in a specification.
Off == [pc |-> "off"]
ClientsOff == wire = Off /\ disk = Off /\ gui = Off /\ cli = Off

(***************************************************************************)
(* Bounds of the model.                                                    *)
(***************************************************************************)
MaxReqs == 3
MaxInFlight == 2
MaxFaults == 1
StartNano == 9
MaxNano == 10

(***************************************************************************)
(* Characters and strings.                                                 *)
(***************************************************************************)
DigitChars == <<"0", "1", "2", "3", "4", "5", "6", "7", "8", "9">>

\* The printable ASCII characters, from byte 32 to byte 126 ("GRAVE" stands
\* for the grave accent, byte 96, which a string of this notation cannot hold).
AsciiChars == <<
    " ", "!", "\"", "#", "$", "%", "&", "'", "(", ")", "*", "+",
    ",", "-", ".", "/", "0", "1", "2", "3", "4", "5", "6", "7",
    "8", "9", ":", ";", "<", "=", ">", "?", "@", "A", "B", "C",
    "D", "E", "F", "G", "H", "I", "J", "K", "L", "M", "N", "O",
    "P", "Q", "R", "S", "T", "U", "V", "W", "X", "Y", "Z", "[",
    "\\", "]", "^", "_", "GRAVE", "a", "b", "c", "d", "e", "f", "g",
    "h", "i", "j", "k", "l", "m", "n", "o", "p", "q", "r", "s",
    "t", "u", "v", "w", "x", "y", "z", "{", "|", "}", "~" >>

FirstAscii == 32

HexDigitChars == DigitChars \o <<"a", "b", "c", "d", "e", "f">>

\* The character of a byte: a Go string holds any byte, and a byte that is
\* not printable ASCII is written x and its two hexadecimal digits.
Chr(b) ==
    IF b >= FirstAscii /\ b < FirstAscii + Len(AsciiChars)
    THEN AsciiChars[b - FirstAscii + 1]
    ELSE "x" \o HexDigitChars[(b \div 16) + 1] \o HexDigitChars[(b % 16) + 1]

Bytes == 0..255
AllChars == {Chr(b) : b \in Bytes}

OrdTable == [c \in AllChars |-> CHOOSE b \in Bytes : Chr(b) = c]

\* The byte value of a character, as bytes.Compare orders keys.
Ord(c) == OrdTable[c]

RECURSIVE Digits(_)
\* %d of a non-negative integer.
Digits(n) ==
    IF n < 10 THEN <<DigitChars[n + 1]>>
    ELSE Digits(n \div 10) \o <<DigitChars[(n % 10) + 1]>>

\* bytes.Compare(a, b) < 0: the order in which a bbolt cursor visits keys.
\* a is a proper prefix of b, or a has the lesser byte where they first
\* differ.
BytesLess(a, b) ==
    \E i \in 1..Len(b) :
        /\ \A j \in 1..(i - 1) : j <= Len(a) /\ a[j] = b[j]
        /\ i > Len(a) \/ Ord(a[i]) < Ord(b[i])

(***************************************************************************)
(* The inputs the requests are drawn from.                                 *)
(***************************************************************************)
Empty == <<>>
IDs == {<<"a">>, <<"a", "b">>, <<"a", "-">>, Empty}
ToIDs == {<<"a">>, <<"a", "b">>, Empty}
GoodPacket == <<"Q", "Q", "=", "=">>
BadPacket == <<"!">>
Methods == {"POST", "GET"}
\* A request body: whether it starts with a JSON value that decodes into a
\* StoredMessage, the members of that value, and the bytes after it.
Body(json, to, from, packet) ==
    [json |-> json, to_id |-> to, from_id |-> from, packet |-> packet,
     rest |-> Empty]
BadJSON == Body(FALSE, Empty, Empty, Empty)
\* The body b followed by more bytes.
Trailing(b, rest) == [b EXCEPT !.rest = rest]
Bodies ==
    {BadJSON, Body(TRUE, <<"a">>, Empty, BadPacket),
     Trailing(Body(TRUE, <<"a">>, <<"s">>, GoodPacket), <<"}", "x">>)}
    \cup {Body(TRUE, to, <<"s">>, GoodPacket) : to \in ToIDs}

\* The body is not one JSON document.
Malformed(body) == ~body.json \/ body.rest # Empty

\* json.NewDecoder(r.Body).Decode(&m): the decoder reads the first JSON value
\* of the stream and leaves what follows it unread.
Decode(body) == [err |-> ~body.json]

(***************************************************************************)
(* StoredMessage and its JSON form.                                        *)
(***************************************************************************)
NanosPerSec == 1000000000

StoredMessage(to, from, packet, ts) ==
    [to_id |-> to, from_id |-> from, packet |-> packet, ts |-> ts]

ZeroMessage == StoredMessage(Empty, Empty, Empty, 0)

\* json.Marshal(m): the fields in declaration order.
JsonMarshal(m) == <<m.to_id, m.from_id, m.packet, m.ts>>

\* json.Unmarshal(v, &m)
JsonUnmarshal(v) == StoredMessage(v[1], v[2], v[3], v[4])

\* fmt.Sprintf("%s-%d", m.ToID, time.Now().UnixNano())
StoreKey(toID, nano) == toID \o <<"-">> \o Digits(nano)

(***************************************************************************)
(* The bucket and the cursor of /fetch.                                    *)
(***************************************************************************)
Nil == <<>>

\* b.Put(key, value): inserts or overwrites.
BucketPut(b, k, v) == [x \in (DOMAIN b) \cup {k} |-> IF x = k THEN v ELSE b[x]]

BucketDelete(b, k) == [x \in (DOMAIN b) \ {k} |-> b[x]]

\* c.First(): the least key, nil in an empty bucket.
CursorFirst(b) ==
    IF DOMAIN b = {} THEN Nil
    ELSE CHOOSE k \in DOMAIN b : \A x \in DOMAIN b : x = k \/ BytesLess(k, x)

\* c.Next(): the least key after k, nil at the end.
CursorNext(b, k) ==
    LET after == {x \in DOMAIN b : BytesLess(k, x)}
    IN  IF after = {} THEN Nil
        ELSE CHOOSE n \in after : \A x \in after : x = n \/ BytesLess(n, x)

\* len(k) >= len(toID) && string(k[:len(toID)]) == toID
KeyMatches(k, toID) ==
    /\ Len(k) >= Len(toID)
    /\ SubSeq(k, 1, Len(toID)) = toID

RECURSIVE CursorScan(_, _, _, _)
\* for k, v := c.First(); k != nil; k, v = c.Next() { ... append; c.Delete() }
CursorScan(b, k, toID, results) ==
    IF k = Nil THEN [bucket |-> b, results |-> results]
    ELSE IF KeyMatches(k, toID)
         THEN CursorScan(BucketDelete(b, k), CursorNext(b, k), toID,
                         Append(results, b[k]))
         ELSE CursorScan(b, CursorNext(b, k), toID, results)

\* The function passed to db.Update by /fetch.
FetchTx(b, toID) == CursorScan(b, CursorFirst(b), toID, <<>>)

\* The function passed to db.Update by /send.
SendTx(b, m, nano, eid) ==
    BucketPut(b, StoreKey(m.to_id, nano), [data |-> JsonMarshal(m), eid |-> eid])

(***************************************************************************)
(* Requests.  A request is received (its handler runs up to db.Update),    *)
(* then its transaction runs and the response is written.  bbolt runs one  *)
(* read-write transaction at a time, so each db.Update is one step.        *)
(***************************************************************************)
EmptyBucket == [k \in {} |-> 0]

\* The client state of the codec: the identity fields of ClientState, the
\* message and the random draws of sendMessage, the body posted and the
\* outcome of fetchMessages for it.
ClientState(pc, privKey, pubKey, myID, msg, ephPriv, body, result) ==
    [pc |-> pc, privKey |-> privKey, pubKey |-> pubKey, myID |-> myID,
     msg |-> msg, ephPriv |-> ephPriv, body |-> body, result |-> result]

NoResult == [outcome |-> "none"]

CodecOff == ClientState("off", <<>>, <<>>, <<>>, <<>>, <<>>, <<>>, NoResult)

\* malformed (ghost): the body the handler decoded was not one JSON document.
Request(kind, method, m, id, pc, status, results, malformed) ==
    [kind |-> kind, method |-> method, m |-> m, id |-> id, pc |-> pc,
     status |-> status, results |-> results, malformed |-> malformed]

\* The requests whose handler has not reached db.Update yet.
InFlight == {i \in DOMAIN reqs : reqs[i].pc = "update"}

CanReceive == Len(reqs) < MaxReqs /\ Cardinality(InFlight) < MaxInFlight

TxEvent(op, req, id, out, ok) ==
    [op |-> op, req |-> req, id |-> id, out |-> out, ok |-> ok]

Init ==
    /\ store = EmptyBucket
    /\ now = StartNano
    /\ reqs = <<>>
    /\ log = <<>>
    /\ lastTx = [req |-> 0, pre |-> EmptyBucket, post |-> EmptyBucket]
    /\ faults = 0
    /\ codec = CodecOff
    /\ ClientsOff

\* The clock advances between two readings, or does not (its resolution is
\* coarser than a handler).
Tick ==
    /\ now < MaxNano
    /\ now' = now + 1
    /\ UNCHANGED <<store, reqs, log, lastTx, faults, codec, clientVars>>

\* /send up to m.TS = time.Now().Unix()
SendBegin(method, body) ==
    /\ CanReceive
    /\ reqs' = Append(reqs,
         IF method # "POST"
         THEN Request("send", method, ZeroMessage, Empty, "done", 405, <<>>,
                      FALSE)
         ELSE IF Decode(body).err
         THEN Request("send", method, ZeroMessage, Empty, "done", 400, <<>>,
                      TRUE)
         ELSE Request("send", method,
                      StoredMessage(body.to_id, body.from_id, body.packet,
                                    now \div NanosPerSec),
                      Empty, "update", 0, <<>>, Malformed(body)))
    /\ UNCHANGED <<store, now, log, lastTx, faults, codec, clientVars>>

\* /send from db.Update to the response.  ok = FALSE: the commit failed and
\* bbolt rolled the transaction back.
SendUpdate(i, ok) ==
    /\ reqs[i].kind = "send"
    /\ reqs[i].pc = "update"
    /\ ok \/ faults < MaxFaults
    /\ LET after == SendTx(store, reqs[i].m, now, i)
       IN  /\ store' = IF ok THEN after ELSE store
           /\ lastTx' = [req |-> i, pre |-> store, post |-> store']
    /\ faults' = IF ok THEN faults ELSE faults + 1
    /\ log' = Append(log, TxEvent("accept", i, reqs[i].m.to_id, <<i>>, ok))
    /\ reqs' = [reqs EXCEPT ![i].pc = "done",
                            ![i].status = IF ok THEN 200 ELSE 500]
    /\ UNCHANGED <<now, codec, clientVars>>

\* /fetch up to the check of the id
FetchBegin(method, id) ==
    /\ CanReceive
    /\ reqs' = Append(reqs,
         IF method # "GET"
         THEN Request("fetch", method, ZeroMessage, Empty, "done", 405, <<>>,
                      FALSE)
         ELSE IF id = Empty
         THEN Request("fetch", method, ZeroMessage, id, "done", 400, <<>>,
                      FALSE)
         ELSE Request("fetch", method, ZeroMessage, id, "update", 0, <<>>,
                      FALSE))
    /\ UNCHANGED <<store, now, log, lastTx, faults, codec, clientVars>>

\* /fetch from db.Update to the response.  The error of db.Update is dropped
\* (_ = db.Update): results holds what the function appended either way.
FetchUpdate(i, ok) ==
    /\ reqs[i].kind = "fetch"
    /\ reqs[i].pc = "update"
    /\ ok \/ faults < MaxFaults
    /\ LET r == FetchTx(store, reqs[i].id)
           n == Len(r.results)
       IN  /\ store' = IF ok THEN r.bucket ELSE store
           /\ lastTx' = [req |-> i, pre |-> store, post |-> store']
           /\ log' = Append(log, TxEvent("drain", i, reqs[i].id,
                                         [j \in 1..n |-> r.results[j].eid], ok))
           /\ reqs' = [reqs EXCEPT
                         ![i].pc = "done",
                         ![i].status = 200,
                         ![i].results = [j \in 1..n |-> JsonUnmarshal(r.results[j].data)]]
    /\ faults' = IF ok THEN faults ELSE faults + 1
    /\ UNCHANGED <<now, codec, clientVars>>

Next ==
    \/ Tick
    \/ \E method \in Methods, body \in Bodies : SendBegin(method, body)
    \/ \E i \in DOMAIN reqs, ok \in BOOLEAN : SendUpdate(i, ok)
    \/ \E method \in Methods, id \in IDs : FetchBegin(method, id)
    \/ \E i \in DOMAIN reqs, ok \in BOOLEAN : FetchUpdate(i, ok)

Spec == Init /\ [][Next]_vars

(***************************************************************************)
(* Vocabulary of the properties of the relay.                              *)
(***************************************************************************)
\* p is a textual prefix of s (p = s included).
IsPrefix(p, s) == Len(p) <= Len(s) /\ \A i \in 1..Len(p) : p[i] = s[i]

\* The transactions of /send that committed, and the envelopes they created.
Accepts == {i \in DOMAIN log : log[i].op = "accept" /\ log[i].ok}
Accepted == {log[i].req : i \in Accepts}

\* The transactions of /fetch, and the envelopes the response of one carries.
Drains == {i \in DOMAIN log : log[i].op = "drain"}
ReturnedBy(d) == {log[d].out[j] : j \in DOMAIN log[d].out}
TimesReturned(e) == Cardinality({d \in Drains : e \in ReturnedBy(d)})

ToIdOf(e) == reqs[e].m.to_id
Pending(e) == \E k \in DOMAIN store : store[k].eid = e
PendingFor(R) == {k \in DOMAIN store : JsonUnmarshal(store[k].data).to_id = R}

\* C1: after Accept(e) and a Drain(e.recipientID) that returned [e], the next
\* Drain(e.recipientID), with no Accept for that recipient in between,
\* returns nothing.
C1_AtMostOnce ==
    \A a \in Accepts, d1 \in Drains, d2 \in Drains :
        LET e == log[a].req
            R == ToIdOf(e)
        IN  ( /\ a < d1 /\ d1 < d2
              /\ log[d1].id = R /\ log[d2].id = R
              /\ log[d1].out = <<e>>
              /\ \A x \in (d1 + 1)..(d2 - 1) :
                    ~(log[x].op = "accept" /\ log[x].ok /\ log[x].id = R)
                    /\ ~(log[x].op = "drain" /\ log[x].id = R) )
            => log[d2].out = <<>>

\* C2: a Drain(B) returns (and so deletes) no envelope of a recipient A with
\* B # A and B not a textual prefix of A.
C2_Isolation ==
    \A d \in Drains : \A e \in ReturnedBy(d) :
        LET A == ToIdOf(e)
            B == log[d].id
        IN  ~(B # A /\ ~IsPrefix(B, A))

\* C3: a Drain(B) never returns and never deletes an envelope whose to_id
\* differs from B.
C3_NoPrefixCollision ==
    /\ \A d \in Drains : \A e \in ReturnedBy(d) : ToIdOf(e) = log[d].id
    /\ \A k \in (DOMAIN lastTx.pre) \ (DOMAIN lastTx.post) :
          reqs[lastTx.req].kind = "fetch"
          => JsonUnmarshal(lastTx.pre[k].data).to_id = reqs[lastTx.req].id

\* The key under which the bucket b holds the envelope e.
KeyOf(b, e) == CHOOSE k \in DOMAIN b : b[k].eid = e

\* What the latest transaction, a Drain d, must have done: returned every
\* envelope whose key begins with d.id, in ascending key order, and deleted
\* exactly those.
ScanAndDelete(d) ==
    LET pre == lastTx.pre
        post == lastTx.post
        matching == {k \in DOMAIN pre : IsPrefix(d.id, k)}
        resp == reqs[d.req].results
    IN  /\ ReturnedBy(Len(log)) = {pre[k].eid : k \in matching}
        /\ Len(d.out) = Cardinality(matching)
        /\ Len(resp) = Len(d.out)
        /\ \A i \in 1..Len(d.out) :
              resp[i] = JsonUnmarshal(pre[KeyOf(pre, d.out[i])].data)
        /\ \A i \in 1..Len(d.out), j \in 1..Len(d.out) :
              i < j => BytesLess(KeyOf(pre, d.out[i]), KeyOf(pre, d.out[j]))
        /\ DOMAIN post = (DOMAIN pre) \ matching
        /\ \A k \in DOMAIN post : post[k] = pre[k]
        /\ store = post

\* C4: every Drain(R) returns every pending envelope whose key begins with
\* R, in ascending key order, and deletes exactly the envelopes it returns:
\* none is deleted without being returned, none returned without being
\* deleted.
C4_DrainScanAndDelete ==
    (log # <<>> /\ log[Len(log)].op = "drain") => ScanAndDelete(log[Len(log)])

\* The part of C4 that holds: a Drain whose transaction committed is a
\* complete scan-and-delete, and one whose transaction failed deleted
\* nothing.
C4_CommittedDrain ==
    (log # <<>> /\ log[Len(log)].op = "drain") =>
        IF log[Len(log)].ok THEN ScanAndDelete(log[Len(log)])
        ELSE lastTx.post = lastTx.pre /\ store = lastTx.pre

\* A committed Drain returned two envelopes, the later accepted one first
\* (key order, not insertion order).
TwoReturnedInKeyOrder ==
    /\ log # <<>>
    /\ log[Len(log)].op = "drain"
    /\ log[Len(log)].ok
    /\ Len(log[Len(log)].out) = 2
    /\ log[Len(log)].out[1] > log[Len(log)].out[2]

\* C5: a request whose transaction failed is answered with a server-side
\* failure and changed nothing in the store.
C5_StorageFailureSurfaced ==
    /\ \A i \in DOMAIN log : ~log[i].ok => reqs[log[i].req].status >= 500
    /\ (log # <<>> /\ ~log[Len(log)].ok) => lastTx.post = lastTx.pre

\* C7: with no Drain so far, the envelopes pending for R are as many as the
\* Accepts for R that committed.
C7_UniqueKeys ==
    Drains = {} =>
        \A R \in ToIDs :
            Cardinality(PendingFor(R)) = Cardinality({a \in Accepts : log[a].id = R})

\* C8: an accepted envelope is pending until a Drain returns it; from then on
\* it is absent from the store, and no other Drain returns it.
C8_Lifecycle ==
    \A e \in Accepted :
        /\ TimesReturned(e) = 0 => Pending(e)
        /\ TimesReturned(e) >= 1 => (~Pending(e) /\ TimesReturned(e) = 1)

\* C9: every accepted envelope is pending or was returned by one Drain; none
\* was returned by two, none is gone without having been returned.
C9_PendingOrReturnedOnce ==
    \A e \in Accepted :
        /\ Pending(e) \/ TimesReturned(e) = 1
        /\ TimesReturned(e) <= 1

\* The requests the relay has to reject: a wrong method, a body that is not
\* one JSON document, a missing or empty id.
MustReject(r) ==
    IF r.kind = "send" THEN r.method # "POST" \/ r.malformed
    ELSE r.method # "GET" \/ r.id = Empty

RejectStatus(r) ==
    IF r.kind = "send" THEN (IF r.method # "POST" THEN 405 ELSE 400)
    ELSE (IF r.method # "GET" THEN 405 ELSE 400)

\* The request ran no transaction.
NoTransaction(i) == \A j \in DOMAIN log : log[j].req # i

\* C16: a request with a wrong method is answered 405, a /send whose body is
\* malformed and a /fetch without id are answered 400, and none of them
\* runs a transaction on the bucket.
C16_RejectedChangeNothing ==
    \A i \in DOMAIN reqs :
        MustReject(reqs[i]) =>
            /\ NoTransaction(i)
            /\ reqs[i].pc = "done"
            /\ reqs[i].status = RejectStatus(reqs[i])

\* The same for the requests the handlers do reject: an answer of 405 or 400
\* comes without a transaction, and a wrong method, a body that does not
\* start with a JSON value, and an empty id get that answer.
C16_AnsweredRejections ==
    \A i \in DOMAIN reqs :
        LET r == reqs[i]
        IN  /\ r.status \in {400, 405} => NoTransaction(i) /\ r.pc = "done"
            /\ MustReject(r) /\ r.status # RejectStatus(r) =>
                  r.kind = "send" /\ r.method = "POST" /\ r.malformed

\* A malformed body was answered 200 and its envelope stored.
C16_TrailingStored ==
    \E i \in DOMAIN reqs :
        /\ reqs[i].malformed /\ reqs[i].status = 200
        /\ \E k \in DOMAIN store : store[k].eid = i

(***************************************************************************)
(* The sealed-packet codec of the client: encodings.                       *)
(* A []byte is a sequence of numbers 0..255, a string a sequence of        *)
(* characters.                                                             *)
(***************************************************************************)
\* []byte(msg) and string(plain)
StringToBytes(str) == [i \in 1..Len(str) |-> Ord(str[i])]
BytesToString(b) == [i \in 1..Len(b) |-> Chr(b[i])]

Zeros(n) == [i \in 1..n |-> 0]

HexChars == <<"0", "1", "2", "3", "4", "5", "6", "7", "8", "9",
              "a", "b", "c", "d", "e", "f">>
HexUpper == <<"0", "1", "2", "3", "4", "5", "6", "7", "8", "9",
              "A", "B", "C", "D", "E", "F">>

\* The value of a hexadecimal digit, -1 for any other character.
HexVal(c) ==
    IF \E i \in DOMAIN HexChars : HexChars[i] = c
    THEN (CHOOSE i \in DOMAIN HexChars : HexChars[i] = c) - 1
    ELSE IF \E i \in DOMAIN HexUpper : HexUpper[i] = c
    THEN (CHOOSE i \in DOMAIN HexUpper : HexUpper[i] = c) - 1
    ELSE -1

\* hex.EncodeToString
HexEncode(b) ==
    [i \in 1..(2 * Len(b)) |->
        LET x == b[(i + 1) \div 2]
        IN  HexChars[(IF i % 2 = 1 THEN x \div 16 ELSE x % 16) + 1]]

\* hex.DecodeString: the bytes of the pairs before the first character that
\* is no hexadecimal digit, with an error for such a character and for an
\* odd length.
HexDecode(str) ==
    LET pairs == Len(str) \div 2
        bad == {i \in 1..pairs :
                   HexVal(str[2 * i - 1]) < 0 \/ HexVal(str[2 * i]) < 0}
        n == IF bad = {} THEN pairs
             ELSE (CHOOSE i \in bad : \A x \in bad : i <= x) - 1
    IN  [err |-> bad # {} \/ Len(str) % 2 # 0,
         bytes |-> [i \in 1..n |->
                      16 * HexVal(str[2 * i - 1]) + HexVal(str[2 * i])]]

\* The alphabet of base64.StdEncoding: A-Z a-z 0-9 + /
B64Chars ==
    SubSeq(AsciiChars, 34, 59) \o SubSeq(AsciiChars, 66, 91)
    \o SubSeq(AsciiChars, 17, 26) \o <<"+", "/">>

B64Table ==
    [c \in AllChars |->
        IF \E i \in DOMAIN B64Chars : B64Chars[i] = c
        THEN (CHOOSE i \in DOMAIN B64Chars : B64Chars[i] = c) - 1
        ELSE -1]

B64Val(c) == B64Table[c]

\* base64.StdEncoding.EncodeToString: three bytes to four characters, the
\* last group padded with "=".
B64Encode(b) ==
    LET n == Len(b)
        at(k) == IF k <= n THEN b[k] ELSE 0
    IN  [i \in 1..(4 * ((n + 2) \div 3)) |->
            LET g == (i - 1) \div 4
                pos == (i - 1) % 4
                x1 == at(3 * g + 1)
                x2 == at(3 * g + 2)
                x3 == at(3 * g + 3)
                have == n - 3 * g
            IN  IF pos = 0 THEN B64Chars[(x1 \div 4) + 1]
                ELSE IF pos = 1 THEN B64Chars[((x1 % 4) * 16 + x2 \div 16) + 1]
                ELSE IF pos = 2
                THEN IF have >= 2 THEN B64Chars[((x2 % 16) * 4 + x3 \div 64) + 1]
                     ELSE "="
                ELSE IF have >= 3 THEN B64Chars[(x3 % 64) + 1] ELSE "="]

\* The number of "=" that end the text (two at most count).
B64Padding(str) ==
    LET n == Len(str)
    IN  IF n >= 2 /\ str[n] = "=" /\ str[n - 1] = "=" THEN 2
        ELSE IF n >= 1 /\ str[n] = "=" THEN 1
        ELSE 0

\* base64.StdEncoding.DecodeString: an error unless the text is groups of
\* four characters of the alphabet, the last group padded with "=" or "==".
B64Decode(str) ==
    LET n == Len(str)
        pad == B64Padding(str)
    IN  IF n % 4 # 0 \/ \E i \in 1..(n - pad) : B64Val(str[i]) < 0
        THEN [err |-> TRUE, bytes |-> <<>>]
        ELSE [err |-> FALSE,
              bytes |-> [k \in 1..(3 * (n \div 4) - pad) |->
                  LET g == (k - 1) \div 3
                      pos == (k - 1) % 3
                      val(j) == IF str[4 * g + j] = "=" THEN 0
                                ELSE B64Val(str[4 * g + j])
                  IN  IF pos = 0 THEN val(1) * 4 + val(2) \div 16
                      ELSE IF pos = 1 THEN (val(2) % 16) * 16 + val(3) \div 4
                      ELSE (val(3) % 4) * 64 + val(4)]]

(***************************************************************************)
(* EncryptedMessage and its JSON text.  The strings of the model hold no   *)
(* character that json.Marshal escapes.                                    *)
(***************************************************************************)
EncryptedMessage(from, to, eph, nonce, ct) ==
    [FromID |-> from, ToID |-> to, EphemeralPK |-> eph, Nonce |-> nonce,
     Ciphertext |-> ct]

Quote == <<"\"">>
KeyFromID == <<"f", "r", "o", "m", "_", "i", "d">>
KeyToID == <<"t", "o", "_", "i", "d">>
KeyEphemeralPK == <<"e", "p", "h", "e", "m", "e", "r", "a", "l", "_", "p", "k">>
KeyNonce == <<"n", "o", "n", "c", "e">>
KeyCiphertext == <<"c", "i", "p", "h", "e", "r", "t", "e", "x", "t">>

JsonMember(key, value) == Quote \o key \o Quote \o <<":">> \o Quote \o value \o Quote

\* json.Marshal(packet)
PacketMarshal(m) ==
    <<"{">> \o JsonMember(KeyFromID, m.FromID)
    \o <<",">> \o JsonMember(KeyToID, m.ToID)
    \o <<",">> \o JsonMember(KeyEphemeralPK, m.EphemeralPK)
    \o <<",">> \o JsonMember(KeyNonce, m.Nonce)
    \o <<",">> \o JsonMember(KeyCiphertext, m.Ciphertext)
    \o <<"}">>

\* The position of the first quote of t at or after pos, 0 if there is none.
FindQuote(t, pos) ==
    IF \E i \in pos..Len(t) : t[i] = "\""
    THEN CHOOSE i \in pos..Len(t) :
            t[i] = "\"" /\ \A j \in pos..(i - 1) : t[j] # "\""
    ELSE 0

RECURSIVE ParseMembers(_, _, _)
\* The members "key":"value" of an object from pos on, up to the closing
\* brace that ends the text.
ParseMembers(t, pos, acc) ==
    IF pos > Len(t) \/ t[pos] # "\"" THEN [err |-> TRUE, members |-> <<>>]
    ELSE LET kEnd == FindQuote(t, pos + 1)
         IN  IF kEnd = 0 \/ kEnd + 2 > Len(t) \/ t[kEnd + 1] # ":" \/ t[kEnd + 2] # "\""
             THEN [err |-> TRUE, members |-> <<>>]
             ELSE LET vEnd == FindQuote(t, kEnd + 3)
                      more == Append(acc, <<SubSeq(t, pos + 1, kEnd - 1),
                                            SubSeq(t, kEnd + 3, vEnd - 1)>>)
                  IN  IF vEnd = 0 \/ vEnd + 1 > Len(t)
                      THEN [err |-> TRUE, members |-> <<>>]
                      ELSE IF t[vEnd + 1] = ","
                      THEN ParseMembers(t, vEnd + 2, more)
                      ELSE IF t[vEnd + 1] = "}" /\ vEnd + 1 = Len(t)
                      THEN [err |-> FALSE, members |-> more]
                      ELSE [err |-> TRUE, members |-> <<>>]

\* The value of the member named key, "" when the object has none.
MemberOf(members, key) ==
    IF \E i \in DOMAIN members : members[i][1] = key
    THEN members[CHOOSE i \in DOMAIN members :
                    members[i][1] = key
                    /\ \A j \in DOMAIN members : members[j][1] = key => j <= i][2]
    ELSE Empty

\* json.Unmarshal(b, &m) into an EncryptedMessage
PacketUnmarshal(t) ==
    LET parsed == IF Len(t) >= 2 /\ t[1] = "{"
                  THEN IF t = <<"{", "}">> THEN [err |-> FALSE, members |-> <<>>]
                       ELSE ParseMembers(t, 2, <<>>)
                  ELSE [err |-> TRUE, members |-> <<>>]
        f(key) == MemberOf(parsed.members, key)
    IN  [err |-> parsed.err,
         m |-> EncryptedMessage(f(KeyFromID), f(KeyToID), f(KeyEphemeralPK),
                                f(KeyNonce), f(KeyCiphertext))]

(***************************************************************************)
(* curve25519.X25519 and chacha20poly1305 (XChaCha20-Poly1305).            *)
(* Both are libraries outside the repository.  They are modelled with the  *)
(* sizes, the error returns and the panics of the libraries, on a small    *)
(* group and a small cipher that keep what the client relies on: scalar    *)
(* multiplication commutes, Open inverts Seal under the same key and       *)
(* nonce, and the tag depends on key, nonce and every ciphertext byte.     *)
(***************************************************************************)
KeySize == 32
NonceSizeX == 24
Overhead == 16
GroupOrder == 251

RECURSIVE FoldLE(_, _)
\* The little-endian number the bytes b spell, modulo q.
FoldLE(b, q) == IF b = <<>> THEN 0 ELSE (b[1] + 256 * FoldLE(Tail(b), q)) % q

\* The scalar the 32 bytes stand for after clamping: never zero.
ClampScalar(k) == FoldLE(k, GroupOrder - 1) + 1

\* The group element the 32 bytes of a u-coordinate stand for; the top bit
\* of the last byte is ignored.
DecodePoint(u) == FoldLE([u EXCEPT ![Len(u)] = u[Len(u)] % 128], GroupOrder)

EncodePoint(x) == <<x>> \o Zeros(KeySize - 1)

Basepoint == <<9>> \o Zeros(KeySize - 1)

\* curve25519.X25519(scalar, point): an error on a wrong length and on a
\* low-order point (all-zero output).
X25519(scalar, point) ==
    IF Len(scalar) # KeySize \/ Len(point) # KeySize
    THEN [err |-> TRUE, out |-> <<>>]
    ELSE LET x == (ClampScalar(scalar) * DecodePoint(point)) % GroupOrder
         IN  IF x = 0 THEN [err |-> TRUE, out |-> <<>>]
             ELSE [err |-> FALSE, out |-> EncodePoint(x)]

\* chacha20poly1305.NewX(key): an error unless the key has KeySize bytes.
NewX(key) ==
    IF Len(key) # KeySize THEN [err |-> TRUE, key |-> <<>>]
    ELSE [err |-> FALSE, key |-> key]

KeyStream(key, nonce, i) ==
    (7 * FoldLE(key, GroupOrder) + 13 * FoldLE(nonce, GroupOrder) + 5 * i) % 256

RECURSIVE WeightedSum(_, _)
\* The sum of (2i + 1) * c[i], modulo GroupOrder, over the bytes from i on.
WeightedSum(c, i) ==
    IF i > Len(c) THEN 0
    ELSE ((2 * i + 1) * c[i] + WeightedSum(c, i + 1)) % GroupOrder

\* The tag: key, nonce and ciphertext each set bytes of their own, so that
\* two tags are equal only when all three agree (no forgery by collision).
Tag(key, nonce, c) ==
    [j \in 1..Overhead |->
        IF j % 3 = 1 THEN (FoldLE(key, GroupOrder) + j) % GroupOrder
        ELSE IF j % 3 = 2 THEN (FoldLE(nonce, GroupOrder) + j) % GroupOrder
        ELSE (WeightedSum(c, 1) + j) % GroupOrder]

\* aead.Seal(nil, nonce, plaintext, nil): the ciphertext followed by the tag;
\* panics on a nonce of the wrong length.
AeadSeal(key, nonce, plaintext) ==
    IF Len(nonce) # NonceSizeX THEN [panic |-> TRUE, out |-> <<>>]
    ELSE LET c == [i \in 1..Len(plaintext) |->
                      (plaintext[i] + KeyStream(key, nonce, i)) % 256]
         IN  [panic |-> FALSE, out |-> c \o Tag(key, nonce, c)]

\* aead.Open(nil, nonce, ciphertext, nil): panics on a nonce of the wrong
\* length; an error when the text is shorter than the tag or the tag does
\* not match.
AeadOpen(key, nonce, ciphertext) ==
    IF Len(nonce) # NonceSizeX
    THEN [panic |-> TRUE, err |-> FALSE, out |-> <<>>]
    ELSE IF Len(ciphertext) < Overhead
    THEN [panic |-> FALSE, err |-> TRUE, out |-> <<>>]
    ELSE LET n == Len(ciphertext) - Overhead
             c == SubSeq(ciphertext, 1, n)
             tag == SubSeq(ciphertext, n + 1, Len(ciphertext))
         IN  IF tag # Tag(key, nonce, c)
             THEN [panic |-> FALSE, err |-> TRUE, out |-> <<>>]
             ELSE [panic |-> FALSE, err |-> FALSE,
                   out |-> [i \in 1..n |->
                              (c[i] + 256 - KeyStream(key, nonce, i)) % 256]]

(***************************************************************************)
(* sendMessage and the loop body of fetchMessages.                         *)
(***************************************************************************)
NoBody == [to_id |-> Empty, from_id |-> Empty, packet |-> Empty]

\* sendMessage(toID, msg) of a client whose identity is myID, with the
\* ephemeral key and the nonce rand.Read gave it: the error it returns and
\* the body it posts to /send.
sendMessage(myID, toID, msg, ephPriv, nonce) ==
    LET ephPub == X25519(ephPriv, Basepoint)
        toPub == HexDecode(toID)
        shared == X25519(ephPriv, toPub.bytes)
        aead == NewX(shared.out)
        ct == AeadSeal(aead.key, nonce, StringToBytes(msg))
        packet == EncryptedMessage(myID, toID, B64Encode(ephPub.out),
                                   B64Encode(nonce), B64Encode(ct.out))
        pjson == PacketMarshal(packet)
    IN  IF ephPub.err \/ toPub.err THEN [err |-> TRUE, body |-> NoBody]
        ELSE IF shared.err THEN [err |-> TRUE, body |-> NoBody]
        ELSE IF aead.err THEN [err |-> TRUE, body |-> NoBody]
        ELSE [err |-> FALSE,
              body |-> [to_id |-> toID, from_id |-> myID,
                        packet |-> B64Encode(StringToBytes(pjson))]]

NoMessage == EncryptedMessage(Empty, Empty, Empty, Empty, Empty)

\* The body of the loop of fetchMessages without m.Ciphertext = string(plain).
OpenPacketKeepCiphertext(privKey, r) ==
    LET b == B64Decode(r.packet)
        parsed == PacketUnmarshal(BytesToString(b.bytes))
        m == parsed.m
        ephPub == B64Decode(m.EphemeralPK)
        shared == X25519(privKey, ephPub.bytes)
        aead == NewX(shared.out)
        nonce == B64Decode(m.Nonce)
        ct == B64Decode(m.Ciphertext)
        plain == AeadOpen(aead.key, nonce.bytes, ct.bytes)
    IN  IF b.err THEN [outcome |-> "skip", m |-> NoMessage]
        ELSE IF parsed.err THEN [outcome |-> "skip", m |-> NoMessage]
        ELSE IF ephPub.err \/ shared.err \/ aead.err \/ nonce.err \/ ct.err
        THEN [outcome |-> "skip", m |-> NoMessage]
        ELSE IF plain.panic THEN [outcome |-> "panic", m |-> NoMessage]
        ELSE IF plain.err
        THEN IF Len(m.FromID) < 8 THEN [outcome |-> "panic", m |-> NoMessage]
             ELSE [outcome |-> "skip", m |-> NoMessage]
        ELSE [outcome |-> "ok", m |-> m]

\* The body of the loop of fetchMessages for one element r of the response:
\* "ok" with the message appended to decryptedMessages, "skip" on continue,
\* "panic" when aead.Open or m.FromID[:8] panics.
OpenPacket(privKey, r) ==
    LET b == B64Decode(r.packet)
        parsed == PacketUnmarshal(BytesToString(b.bytes))
        m == parsed.m
        ephPub == B64Decode(m.EphemeralPK)
        shared == X25519(privKey, ephPub.bytes)
        aead == NewX(shared.out)
        nonce == B64Decode(m.Nonce)
        ct == B64Decode(m.Ciphertext)
        plain == AeadOpen(aead.key, nonce.bytes, ct.bytes)
    IN  IF b.err THEN [outcome |-> "skip", m |-> NoMessage]
        ELSE IF parsed.err THEN [outcome |-> "skip", m |-> NoMessage]
        ELSE IF ephPub.err \/ shared.err \/ aead.err \/ nonce.err \/ ct.err
        THEN [outcome |-> "skip", m |-> NoMessage]
        ELSE IF plain.panic THEN [outcome |-> "panic", m |-> NoMessage]
        ELSE IF plain.err
        THEN IF Len(m.FromID) < 8 THEN [outcome |-> "panic", m |-> NoMessage]
             ELSE [outcome |-> "skip", m |-> NoMessage]
        ELSE [outcome |-> "ok",
              m |-> [m EXCEPT !.Ciphertext = BytesToString(plain.out)]]

(***************************************************************************)
(* Validation by /send.                                                    *)
(***************************************************************************)
\* The fields a /send request must carry: both ids non-empty and a packet
\* that base64-decodes.
WellFormed(m) ==
    /\ m.to_id # Empty
    /\ m.from_id # Empty
    /\ ~B64Decode(m.packet).err

\* C6: every envelope the store holds or held came from a well-formed
\* request, and every /send request that is not well-formed was answered
\* with an error status.
C6_AcceptValidates ==
    /\ \A e \in Accepted : WellFormed(reqs[e].m)
    /\ \A k \in DOMAIN store : WellFormed(JsonUnmarshal(store[k].data))
    /\ \A i \in DOMAIN reqs :
          (reqs[i].kind = "send" /\ reqs[i].pc = "done" /\ ~WellFormed(reqs[i].m))
          => reqs[i].status >= 400

(***************************************************************************)
(* The codec end to end: a recipient creates its identity, a sender seals  *)
(* a message to it, the recipient fetches and opens it.                    *)
(***************************************************************************)
\* The 32 bytes rand.Read may give for a private key.
RandomKeys ==
    {Zeros(KeySize), [i \in 1..KeySize |-> 255], [i \in 1..KeySize |-> i],
     <<7>> \o Zeros(KeySize - 1)}

EphemeralKeys ==
    {Zeros(KeySize), [i \in 1..KeySize |-> 255 - i], <<1, 2>> \o Zeros(KeySize - 2)}

Nonces == {Zeros(NonceSizeX), [i \in 1..NonceSizeX |-> 10 * i]}

Messages == {Empty, <<"~">>, <<"h", "i">>, <<"\"", " ", "}">>}

\* The identity of the sender.
SenderID == HexEncode(X25519([i \in 1..KeySize |-> 3], Basepoint).out)

CodecInit ==
    /\ store = EmptyBucket
    /\ now = StartNano
    /\ reqs = <<>>
    /\ log = <<>>
    /\ lastTx = [req |-> 0, pre |-> EmptyBucket, post |-> EmptyBucket]
    /\ faults = 0
    /\ ClientsOff
    /\ \E priv \in RandomKeys, msg \in Messages :
          codec = ClientState("new", priv, <<>>, <<>>, msg, <<>>, <<>>, NoResult)

\* initIdentity: the key pair and the id of the recipient.
InitIdentity ==
    /\ codec.pc = "new"
    /\ LET pub == X25519(codec.privKey, Basepoint)
       IN  codec' = IF pub.err THEN [codec EXCEPT !.pc = "failed"]
                    ELSE [codec EXCEPT !.pc = "ready", !.pubKey = pub.out,
                                       !.myID = HexEncode(pub.out)]
    /\ UNCHANGED <<relayVars, clientVars>>

\* sendMessage(toID, msg) by the sender, toID the id of the recipient.
Seal(ephPriv, nonce) ==
    /\ codec.pc = "ready"
    /\ LET sent == sendMessage(SenderID, codec.myID, codec.msg, ephPriv, nonce)
       IN  codec' = IF sent.err THEN [codec EXCEPT !.pc = "failed"]
                    ELSE [codec EXCEPT !.pc = "sealed", !.ephPriv = ephPriv,
                                       !.body = sent.body]
    /\ UNCHANGED <<relayVars, clientVars>>

\* fetchMessages by the recipient: the relay hands back the message it
\* stored for the body, and the loop body runs on it.
Open ==
    /\ codec.pc = "sealed"
    /\ LET r == JsonUnmarshal(JsonMarshal(
                    StoredMessage(codec.body.to_id, codec.body.from_id,
                                  codec.body.packet, now \div NanosPerSec)))
       IN  codec' = [codec EXCEPT !.pc = "opened",
                                  !.result = OpenPacket(codec.privKey, r)]
    /\ UNCHANGED <<relayVars, clientVars>>

CodecNext ==
    \/ InitIdentity
    \/ \E ephPriv \in EphemeralKeys, nonce \in Nonces : Seal(ephPriv, nonce)
    \/ Open

CodecSpec == CodecInit /\ [][CodecNext]_vars

\* The ephemeral public key a sealed body carries.
EphemeralPKOf(body) ==
    B64Decode(PacketUnmarshal(BytesToString(B64Decode(body.packet).bytes)).m.EphemeralPK).bytes

\* C10: sealing a message to the id of a generated key pair never fails, and
\* the recipient opening the sealed packet with its private key gets exactly
\* the message; the secret of the ephemeral private key and the recipient's
\* public key is the secret of the recipient's private key and the ephemeral
\* public key.
C10_RoundTrip ==
    /\ codec.pc # "failed"
    /\ codec.pc \in {"sealed", "opened"} =>
          /\ ~X25519(codec.ephPriv, codec.pubKey).err
          /\ X25519(codec.ephPriv, codec.pubKey)
                = X25519(codec.privKey, EphemeralPKOf(codec.body))
    /\ codec.pc = "opened" =>
          /\ codec.result.outcome = "ok"
          /\ codec.result.m.Ciphertext = codec.msg
          /\ codec.result.m.FromID = SenderID
          /\ codec.result.m.ToID = codec.myID

\* C10 witness: a message of three characters, a quote and a brace among
\* them, was sealed and opened.
C10_Witness ==
    /\ codec.pc = "opened"
    /\ codec.result.outcome = "ok"
    /\ Len(codec.msg) = 3
    /\ codec.result.m.Ciphertext = codec.msg

(***************************************************************************)
(* Fetching a batch.  The relay does not look into packets, so what a      *)
(* recipient fetches is whatever anybody posted for its id: packets sealed *)
(* by sendMessage, the same altered on the way, and packets that are no    *)
(* packets at all.                                                         *)
(***************************************************************************)
MaxBatch == 2

\* x with the bit of weight w flipped.
FlipBit(x, w) == IF (x \div w) % 2 = 1 THEN x - w ELSE x + w

FlipByte(b, i, w) == [b EXCEPT ![i] = FlipBit(b[i], w)]

\* The EncryptedMessage inside the packet of a body of /send.
PacketOf(body) == PacketUnmarshal(BytesToString(B64Decode(body.packet).bytes)).m

\* The packet string of an EncryptedMessage, as sendMessage builds it.
Repack(m) == B64Encode(StringToBytes(PacketMarshal(m)))

\* The alterations of a sealed packet, each of one field.
CiphertextAlterations == {"ciphertext bit", "tag bit", "ciphertext cut"}
NonceAlterations == {"nonce bit", "nonce cut"}
EphemeralAlterations == {"ephemeral bit", "ephemeral top bit", "ephemeral zero"}
Alterations == CiphertextAlterations \cup NonceAlterations \cup EphemeralAlterations

\* Packets that fail before or at the AEAD for other reasons.
Garbage == {"not base64", "not json", "short sender"}

ShortSender == <<"e", "v", "e">>

\* The EncryptedMessage m altered as how says.
Altered(m, how) ==
    LET ct == B64Decode(m.Ciphertext).bytes
        nonce == B64Decode(m.Nonce).bytes
        eph == B64Decode(m.EphemeralPK).bytes
    IN  CASE how = "ciphertext bit" ->
               [m EXCEPT !.Ciphertext = B64Encode(FlipByte(ct, 1, 1))]
          [] how = "tag bit" ->
               [m EXCEPT !.Ciphertext = B64Encode(FlipByte(ct, Len(ct), 128))]
          [] how = "ciphertext cut" ->
               [m EXCEPT !.Ciphertext = B64Encode(SubSeq(ct, 1, Overhead - 1))]
          [] how = "nonce bit" ->
               [m EXCEPT !.Nonce = B64Encode(FlipByte(nonce, 1, 1))]
          [] how = "nonce cut" ->
               [m EXCEPT !.Nonce = B64Encode(SubSeq(nonce, 1, NonceSizeX - 1))]
          [] how = "ephemeral bit" ->
               [m EXCEPT !.EphemeralPK = B64Encode(FlipByte(eph, 1, 1))]
          [] how = "ephemeral top bit" ->
               [m EXCEPT !.EphemeralPK = B64Encode(FlipByte(eph, KeySize, 128))]
          [] how = "ephemeral zero" ->
               [m EXCEPT !.EphemeralPK = B64Encode(Zeros(KeySize))]
          [] how = "short sender" ->
               [m EXCEPT !.FromID = ShortSender,
                         !.Ciphertext = B64Encode(FlipByte(ct, 1, 1))]
          [] OTHER -> m

\* The element of the response of /fetch for a body posted as how says.
RawOf(body, how) ==
    [from_id |-> body.from_id,
     packet |-> CASE how = "not base64" -> BadPacket
                  [] how = "not json" -> B64Encode(StringToBytes(<<"x">>))
                  [] OTHER -> Repack(Altered(PacketOf(body), how))]

RECURSIVE FetchLoop(_, _, _, _)
\* for _, r := range raw { ... }: the messages appended, and whether a panic
\* ended the process before the loop did.
FetchLoop(privKey, raw, i, acc) ==
    IF i > Len(raw) THEN [crashed |-> FALSE, messages |-> acc]
    ELSE LET o == OpenPacket(privKey, raw[i])
         IN  IF o.outcome = "panic" THEN [crashed |-> TRUE, messages |-> acc]
             ELSE FetchLoop(privKey, raw, i + 1,
                            IF o.outcome = "ok" THEN Append(acc, o.m) ELSE acc)

\* fetchMessages from the decoded response on.
fetchMessages(privKey, raw) == FetchLoop(privKey, raw, 1, <<>>)

\* The body of the loop of the command-line client's fetch.  Every error is
\* dropped there: a failed decode leaves the zero value (for the packets of
\* the model nothing is decoded before the error), and after a failed key
\* agreement aead is nil, so that aead.Open panics.  m.FromID[:8] is printed
\* on failure and on success alike.
OpenPacketCLI(privKey, r) ==
    LET b == B64Decode(r.packet)
        parsed == PacketUnmarshal(BytesToString(b.bytes))
        m == IF b.err \/ parsed.err THEN NoMessage ELSE parsed.m
        ephPub == B64Decode(m.EphemeralPK)
        shared == X25519(privKey, ephPub.bytes)
        aead == NewX(shared.out)
        nonce == B64Decode(m.Nonce)
        ct == B64Decode(m.Ciphertext)
        plain == AeadOpen(aead.key, nonce.bytes, ct.bytes)
    IN  IF aead.err THEN [outcome |-> "panic", m |-> NoMessage]
        ELSE IF plain.panic THEN [outcome |-> "panic", m |-> NoMessage]
        ELSE IF Len(m.FromID) < 8 THEN [outcome |-> "panic", m |-> NoMessage]
        ELSE IF plain.err THEN [outcome |-> "skip", m |-> NoMessage]
        ELSE [outcome |-> "ok",
              m |-> [m EXCEPT !.Ciphertext = BytesToString(plain.out)]]

RECURSIVE FetchLoopCLI(_, _, _, _)
FetchLoopCLI(privKey, raw, i, acc) ==
    IF i > Len(raw) THEN [crashed |-> FALSE, messages |-> acc]
    ELSE LET o == OpenPacketCLI(privKey, raw[i])
         IN  IF o.outcome = "panic" THEN [crashed |-> TRUE, messages |-> acc]
             ELSE FetchLoopCLI(privKey, raw, i + 1,
                               IF o.outcome = "ok" THEN Append(acc, o.m) ELSE acc)

\* What a fetch gave: which client ran it and with whose key, the batch, what
\* each packet of it gives when it is opened alone, and the run of the loop.
Fetched(pc, client, key, batch, raw, outcomes, result) ==
    [pc |-> pc, client |-> client, key |-> key, batch |-> batch, raw |-> raw,
     outcomes |-> outcomes, result |-> result]

NoFetch == [crashed |-> FALSE, messages |-> <<>>]

Clients == {"gui", "cli"}

\* The recipient, the messages and the sender's ephemeral keys of the
\* batches, and the private key of somebody else.
FetchKeys == {[i \in 1..KeySize |-> i]}
FetchTexts == {<<"~">>, <<"h", "i">>}
FetchEphemeralKeys == {<<1, 2>> \o Zeros(KeySize - 2)}
OtherKey == Zeros(KeySize)

FetchInit ==
    /\ store = EmptyBucket
    /\ now = StartNano
    /\ reqs = <<>>
    /\ log = <<>>
    /\ lastTx = [req |-> 0, pre |-> EmptyBucket, post |-> EmptyBucket]
    /\ faults = 0
    /\ \E priv \in FetchKeys, msg \in FetchTexts :
          codec = ClientState("new", priv, <<>>, <<>>, msg, <<>>, <<>>, NoResult)
    /\ wire = Fetched("collect", "gui", "own", <<>>, <<>>, <<>>, NoFetch)
    /\ disk = Off /\ gui = Off /\ cli = Off

\* Somebody posts for the recipient the sealed packet, altered or not, or
\* garbage; the relay stores what it gets.
Deliver(how) ==
    /\ codec.pc = "sealed"
    /\ wire.pc = "collect"
    /\ Len(wire.batch) < MaxBatch
    /\ wire' = [wire EXCEPT !.batch = Append(@, how),
                            !.raw = Append(@, RawOf(codec.body, how))]
    /\ UNCHANGED <<relayVars, codec, disk, gui, cli>>

\* The recipient, or the holder of another private key, fetches the batch.
Fetch(client, privKey) ==
    /\ wire.pc = "collect"
    /\ wire.batch # <<>>
    /\ wire' = [wire EXCEPT
          !.pc = "fetched",
          !.client = client,
          !.key = IF privKey = codec.privKey THEN "own" ELSE "other",
          !.outcomes = [i \in DOMAIN wire.raw |->
                           IF client = "gui"
                           THEN OpenPacket(privKey, wire.raw[i]).outcome
                           ELSE OpenPacketCLI(privKey, wire.raw[i]).outcome],
          !.result = IF client = "gui" THEN fetchMessages(privKey, wire.raw)
                     ELSE FetchLoopCLI(privKey, wire.raw, 1, <<>>)]
    /\ UNCHANGED <<relayVars, codec, disk, gui, cli>>

FetchNext ==
    \/ InitIdentity
    \/ \E ephPriv \in FetchEphemeralKeys, nonce \in Nonces : Seal(ephPriv, nonce)
    \/ \E how \in Alterations \cup Garbage \cup {"none"} : Deliver(how)
    \/ \E client \in Clients, privKey \in {codec.privKey, OtherKey} :
          Fetch(client, privKey)

FetchSpec == FetchInit /\ [][FetchNext]_vars

\* C11: a packet whose ciphertext, nonce or ephemeral public key was
\* altered, and any sealed packet opened with another private key, fails to
\* open (it is skipped) and contributes no plaintext to the result.
C11_TamperDetection ==
    wire.pc = "fetched" =>
        /\ \A i \in DOMAIN wire.batch :
              (wire.batch[i] \in Alterations
                  \/ (wire.key = "other" /\ wire.batch[i] = "none"))
              => wire.outcomes[i] = "skip"
        /\ (\A i \in DOMAIN wire.batch : wire.batch[i] \in Alterations)
              => wire.result.messages = <<>>

\* The ephemeral public key with its top bit flipped opens to the message.
TopBitAccepted ==
    /\ wire.pc = "fetched"
    /\ wire.key = "own"
    /\ wire.batch = <<"ephemeral top bit">>
    /\ wire.outcomes = <<"ok">>
    /\ wire.result.messages[1].Ciphertext = codec.msg

\* The part of C11 that holds: an altered ciphertext, a nonce or an
\* ephemeral key with a bit below the top one flipped, and another private
\* key never give a plaintext.
C11_DetectedAlterations ==
    wire.pc = "fetched" =>
        \A i \in DOMAIN wire.batch :
            (wire.batch[i] \in (Alterations \ {"ephemeral top bit"})
                \/ (wire.key = "other" /\ wire.batch[i] = "none"))
            => wire.outcomes[i] # "ok"

RECURSIVE OpenedAlone(_, _, _)
\* The messages of the packets of raw, from the i-th on, that open when they
\* are processed alone, in the order of the batch.
OpenedAlone(privKey, raw, i) ==
    IF i > Len(raw) THEN <<>>
    ELSE LET o == IF wire.client = "gui" THEN OpenPacket(privKey, raw[i])
                  ELSE OpenPacketCLI(privKey, raw[i])
         IN  (IF o.outcome = "ok" THEN <<o.m>> ELSE <<>>)
             \o OpenedAlone(privKey, raw, i + 1)

\* C13: the recipient's fetch of a batch does not crash, and its result is
\* the messages of exactly the packets that do not fail, in batch order,
\* whatever the failing packets hold.
C13_PerPacketRecovery ==
    (wire.pc = "fetched" /\ wire.key = "own") =>
        /\ ~wire.result.crashed
        /\ wire.result.messages = OpenedAlone(codec.privKey, wire.raw, 1)

\* A packet that fails to authenticate and names a sender of fewer than
\* eight characters ends the fetch of the GUI client before the good packet
\* after it is opened.
ShortSenderCrash ==
    /\ wire.pc = "fetched"
    /\ wire.client = "gui"
    /\ wire.key = "own"
    /\ wire.batch = <<"short sender", "none">>
    /\ wire.result.crashed
    /\ wire.result.messages = <<>>

\* The part of C13 that holds for the GUI client: a batch with no packet
\* that panics is processed to its end.
C13_RecoveryWithoutPanic ==
    (wire.pc = "fetched" /\ wire.client = "gui" /\ wire.key = "own"
        /\ \A i \in DOMAIN wire.outcomes : wire.outcomes[i] # "panic") =>
        /\ ~wire.result.crashed
        /\ wire.result.messages = OpenedAlone(codec.privKey, wire.raw, 1)

(***************************************************************************)
(* A sender, the relay and a recipient: sendMessage posts the sealed body  *)
(* to /send, the recipient fetches its id.                                 *)
(***************************************************************************)
\* The call of sendMessage: where it is, and the error it returned.
SendCall(pc, err) == [pc |-> pc, err |-> err]

RelayInit ==
    /\ store = EmptyBucket
    /\ now = StartNano
    /\ reqs = <<>>
    /\ log = <<>>
    /\ lastTx = [req |-> 0, pre |-> EmptyBucket, post |-> EmptyBucket]
    /\ faults = 0
    /\ \E priv \in FetchKeys, msg \in FetchTexts :
          codec = ClientState("new", priv, <<>>, <<>>, msg, <<>>, <<>>, NoResult)
    /\ wire = SendCall("sealing", FALSE)
    /\ disk = Off /\ gui = Off /\ cli = Off

\* http.Post: the request reaches the relay, whose handler starts.
Post ==
    /\ codec.pc = "sealed"
    /\ wire.pc = "sealing"
    /\ reqs = <<>>
    /\ SendBegin("POST", Body(TRUE, codec.body.to_id, codec.body.from_id,
                              codec.body.packet))

\* http.Post returns an error: the request did not reach the relay, and
\* sendMessage returns the error.
PostFails ==
    /\ codec.pc = "sealed"
    /\ wire.pc = "sealing"
    /\ reqs = <<>>
    /\ wire' = SendCall("returned", TRUE)
    /\ UNCHANGED <<relayVars, codec, disk, gui, cli>>

\* http.Post returns the response, which sendMessage drops (_, err =), and
\* sendMessage returns nil.
PostReturns ==
    /\ wire.pc = "sealing"
    /\ reqs # <<>>
    /\ reqs[1].pc = "done"
    /\ wire' = SendCall("returned", FALSE)
    /\ UNCHANGED <<relayVars, codec, disk, gui, cli>>

\* The recipient's GET /fetch?id=<myID>, once sendMessage has returned.
FetchOwn ==
    /\ wire.pc = "returned"
    /\ FetchBegin("GET", codec.myID)

RelayNext ==
    \/ InitIdentity
    \/ \E ephPriv \in FetchEphemeralKeys, nonce \in Nonces : Seal(ephPriv, nonce)
    \/ Post
    \/ PostFails
    \/ PostReturns
    \/ \E i \in DOMAIN reqs, ok \in BOOLEAN : SendUpdate(i, ok)
    \/ FetchOwn
    \/ \E i \in DOMAIN reqs, ok \in BOOLEAN : FetchUpdate(i, ok)
    \/ Tick

RelaySpec == RelayInit /\ [][RelayNext]_vars

\* The fetches answered so far, in the order of their transactions.
OwnDrains == {d \in Drains : log[d].id = codec.myID}
FirstDrain == CHOOSE d \in OwnDrains : \A x \in OwnDrains : d <= x

\* C12: after the one Accept of the sealed body, the first fetch of the
\* recipient's id returns exactly one envelope, with to_id, from_id and
\* packet as posted, whose packet opens to the message with the recipient's
\* private key; every later fetch returns no envelope.
C12_BlindForwarder ==
    (Accepts # {} /\ OwnDrains # {}) =>
        /\ \A d \in OwnDrains :
              LET resp == reqs[log[d].req].results
              IN  IF d = FirstDrain
                  THEN /\ Len(resp) = 1
                       /\ resp[1].to_id = codec.body.to_id
                       /\ resp[1].from_id = codec.body.from_id
                       /\ resp[1].packet = codec.body.packet
                       /\ OpenPacket(codec.privKey, resp[1]).outcome = "ok"
                       /\ OpenPacket(codec.privKey, resp[1]).m.Ciphertext = codec.msg
                  ELSE resp = <<>>

\* The part of C12 that holds: whatever a fetch returns is the posted body,
\* field by field, and opens to the message.
C12_ForwardedUnchanged ==
    \A d \in OwnDrains :
        LET resp == reqs[log[d].req].results
        IN  \A i \in DOMAIN resp :
               /\ resp[i].to_id = codec.body.to_id
               /\ resp[i].from_id = codec.body.from_id
               /\ resp[i].packet = codec.body.packet
               /\ OpenPacket(codec.privKey, resp[i]).m.Ciphertext = codec.msg

\* C18: when sendMessage has returned and the relay did not answer 200 (or
\* the request failed), sendMessage returned an error; it returned nil only
\* for an envelope the relay stored.
C18_SendReportsFailure ==
    wire.pc = "returned" =>
        /\ (reqs = <<>> \/ reqs[1].status # 200) => wire.err
        /\ ~wire.err => (reqs # <<>> /\ 1 \in Accepted)

(***************************************************************************)
(* The identity on disk and the ClientState of the GUI client.             *)
(***************************************************************************)
NumThreads == 2
MaxContacts == 2
MaxHistory == 2

Threads == 1..NumThreads

\* A file that does not exist.
Absent == <<"absent">>

\* The key files, and (ghost) what the latest init found and left.
KeyFiles(priv, pub, lastInit) == [priv |-> priv, pub |-> pub, lastInit |-> lastInit]

InitRecord(by, existed, err, filesKept, idKept) ==
    [by |-> by, existed |-> existed, err |-> err, filesKept |-> filesKept,
     idKept |-> idKept]

NoInit == InitRecord("none", FALSE, "none", TRUE, TRUE)

\* A map that was never made, and make(map[string][]string).
NilMap == [nil |-> TRUE, of |-> <<>>]
EmptyMap == [nil |-> FALSE, of |-> [c \in {} |-> <<>>]]

\* m[k], the zero value for a missing key and for a nil map.
MapGet(m, k) == IF ~m.nil /\ k \in DOMAIN m.of THEN m.of[k] ELSE <<>>

\* m[k] = v on a map that was made.
MapPut(m, k, v) ==
    [nil |-> FALSE,
     of |-> [x \in (DOMAIN m.of) \cup {k} |-> IF x = k THEN v ELSE m.of[x]]]

\* The identity fields and the contact state of ClientState.
Identity(myID, privKey, pubKey, contacts, messageHistory) ==
    [myID |-> myID, privKey |-> privKey, pubKey |-> pubKey,
     contacts |-> contacts, messageHistory |-> messageHistory]

\* cs := &ClientState{}
ZeroIdentity == Identity(Empty, <<>>, <<>>, <<>>, NilMap)

\* The private keys rand.Read gives the GUI client and the command-line
\* client.
GuiKeys == {[i \in 1..KeySize |-> i]}
CliKeys == {<<7>> \o Zeros(KeySize - 1)}

PublicOf(priv) == X25519(priv, Basepoint).out

\* What can go wrong while initIdentity writes: nothing, the write of the
\* private key (or anything before it), or the write of the public key.
WriteOutcomes == {"ok", "priv fails", "pub fails"}

\* initIdentity without the os.Stat of the private key file.
initIdentityNoStat(d, id, priv, w) ==
    IF w = "priv fails"
    THEN [err |-> "write", priv |-> d.priv, pub |-> d.pub, id |-> id]
    ELSE IF w = "pub fails"
    THEN [err |-> "write", priv |-> priv, pub |-> d.pub, id |-> id]
    ELSE [err |-> "none", priv |-> priv, pub |-> PublicOf(priv),
          id |-> Identity(HexEncode(PublicOf(priv)), priv, PublicOf(priv),
                          <<>>, EmptyMap)]

\* initIdentity under the mutex, with the key rand.Read gives and the
\* outcome of the writes: the error returned, the files and the state left.
initIdentity(d, id, priv, w) ==
    IF d.priv # Absent
    THEN [err |-> "exists", priv |-> d.priv, pub |-> d.pub, id |-> id]
    ELSE IF w = "priv fails"
    THEN [err |-> "write", priv |-> d.priv, pub |-> d.pub, id |-> id]
    ELSE IF w = "pub fails"
    THEN [err |-> "write", priv |-> priv, pub |-> d.pub, id |-> id]
    ELSE [err |-> "none", priv |-> priv, pub |-> PublicOf(priv),
          id |-> Identity(HexEncode(PublicOf(priv)), priv, PublicOf(priv),
                          <<>>, EmptyMap)]

\* loadIdentity: an error when a key file cannot be read.
loadIdentity(d, id) ==
    IF d.priv = Absent \/ d.pub = Absent
    THEN [err |-> "read", id |-> id]
    ELSE [err |-> "none",
          id |-> Identity(HexEncode(d.pub), d.priv, d.pub, <<>>, EmptyMap)]

\* The init command of the command-line client; the errors of the writes
\* are dropped.
cliInit(d, priv, w) ==
    IF d.priv # Absent
    THEN [err |-> "exists", priv |-> d.priv, pub |-> d.pub]
    ELSE [err |-> "none",
          priv |-> IF w = "priv fails" THEN d.priv ELSE priv,
          pub |-> IF w = "ok" THEN PublicOf(priv) ELSE d.pub]

(***************************************************************************)
(* The GUI client: main loads the identity, then the bindings run on       *)
(* threads. A binding that locks cs.mu takes one step to acquire it and    *)
(* one step for its body, which ends with the unlock.                      *)
(***************************************************************************)
Binding(op, contact, err) == [op |-> op, contact |-> contact, err |-> err]

Idle == Binding("idle", Empty, FALSE)

\* (ghost) The latest read of cs.myID by isIDExisting or getMyID: whether
\* the reader held cs.mu and the function that held it meanwhile.
MyIDRead(op, locked, holder) == [op |-> op, locked |-> locked, holder |-> holder]

NoRead == MyIDRead("none", TRUE, "none")

\* (ghost) The latest request a client issued to the relay.
Issued(kind, id, result) == [kind |-> kind, id |-> id, result |-> result]

NoRequest == Issued("none", Empty, "none")

GuiState(pc, id, loadErr, mu, th, read, issued, panic) ==
    [pc |-> pc, id |-> id, loadErr |-> loadErr, mu |-> mu, th |-> th,
     read |-> read, issued |-> issued, panic |-> panic]

\* The contacts the page offers: the ID of another party and a string that
\* is no ID.
GuiContacts == {HexEncode(PublicOf(k)) : k \in CliKeys}

GuiText == <<"h", "i">>

YouPrefix == <<"[", "Y", "o", "u", "]", ":", " ">>

LockedOps ==
    {"initIdentity", "sendMessage", "fetchMessages", "getContacts",
     "getHistory", "addContact"}

TakesContact(op) == op \in {"sendMessage", "getHistory", "addContact"}

\* The history entries of a contact, stored and about to be stored.
HistoryLoad(c) ==
    Len(MapGet(gui.id.messageHistory, c))
    + Cardinality({t \in Threads :
                      /\ gui.th[t].contact = c
                      /\ gui.th[t].op \in {"sendMessage", "append", "appending"}})

GuiInit ==
    /\ store = EmptyBucket /\ now = StartNano /\ reqs = <<>> /\ log = <<>>
    /\ lastTx = Nil /\ faults = 0
    /\ codec = CodecOff /\ wire = Off /\ cli = Off
    /\ disk = KeyFiles(Absent, Absent, NoInit)
    /\ gui = GuiState("start", ZeroIdentity, FALSE, 0, [t \in Threads |-> Idle],
                      NoRead, NoRequest, "none")

\* main: cs := &ClientState{} and cs.loadIdentity(), whose error is logged.
Load ==
    /\ gui.pc = "start"
    /\ LET r == loadIdentity(disk, gui.id)
       IN  gui' = [gui EXCEPT !.pc = "running", !.id = r.id,
                              !.loadErr = (r.err # "none")]
    /\ UNCHANGED <<relayVars, codec, wire, disk, cli>>

\* cs.mu.Lock() at the head of a binding.
Lock(t, op, c) ==
    /\ gui.pc = "running" /\ gui.mu = 0 /\ gui.th[t] = Idle
    /\ TakesContact(op) <=> c # Empty
    /\ op = "addContact" => Len(gui.id.contacts) < MaxContacts
    /\ op = "sendMessage" => HistoryLoad(c) < MaxHistory
    /\ gui' = [gui EXCEPT !.mu = t, !.th[t] = Binding(op, c, FALSE)]
    /\ UNCHANGED <<relayVars, codec, wire, disk, cli>>

Holds(t, op) == gui.pc = "running" /\ gui.mu = t /\ gui.th[t].op = op

Released(t, next) == [gui EXCEPT !.mu = 0, !.th[t] = next]

\* go_init_identity
GuiInitIdentity(t, priv, w) ==
    /\ Holds(t, "initIdentity")
    /\ LET r == initIdentity(disk, gui.id, priv, w)
       IN  /\ disk' = KeyFiles(r.priv, r.pub,
                        InitRecord("gui", disk.priv # Absent, r.err,
                                   r.priv = disk.priv /\ r.pub = disk.pub,
                                   r.id = gui.id))
           /\ gui' = [Released(t, Idle) EXCEPT !.id = r.id]
    /\ UNCHANGED <<relayVars, codec, wire, cli>>

\* client init, run beside the GUI client in the same directory.
CliInit(priv, w) ==
    /\ LET r == cliInit(disk, priv, w)
       IN  disk' = KeyFiles(r.priv, r.pub,
                        InitRecord("cli", disk.priv # Absent, r.err,
                                   r.priv = disk.priv /\ r.pub = disk.pub,
                                   TRUE))
    /\ UNCHANGED <<relayVars, codec, wire, gui, cli>>

\* The user deletes the keys folder.
DeleteKeys ==
    /\ disk.priv # Absent \/ disk.pub # Absent
    /\ disk' = KeyFiles(Absent, Absent, disk.lastInit)
    /\ UNCHANGED <<relayVars, codec, wire, gui, cli>>

\* go_add_contact: the store into a nil map panics.
AddContact(t) ==
    /\ Holds(t, "addContact")
    /\ LET c == gui.th[t].contact
           contacts == Append(gui.id.contacts, c)
       IN  IF gui.id.messageHistory.nil
           THEN gui' = [gui EXCEPT !.pc = "crashed", !.panic = "addContact",
                                   !.id.contacts = contacts]
           ELSE gui' = [Released(t, Idle) EXCEPT
                           !.id.contacts = contacts,
                           !.id.messageHistory = MapPut(@, c, <<>>)]
    /\ UNCHANGED <<relayVars, codec, wire, disk, cli>>

\* go_get_contacts and go_get_history
GetLocked(t) ==
    /\ Holds(t, "getContacts") \/ Holds(t, "getHistory")
    /\ gui' = Released(t, Idle)
    /\ UNCHANGED <<relayVars, codec, wire, disk, cli>>

\* go_send_message, first half: cs.sendMessage(contactID, msg). posted says
\* whether http.Post reached the relay; the status of the answer is not read.
GuiSendMessage(t, ephPriv, nonce, posted) ==
    /\ Holds(t, "sendMessage")
    /\ LET c == gui.th[t].contact
           r == sendMessage(gui.id.myID, c, GuiText, ephPriv, nonce)
       IN  IF r.err
           THEN /\ posted
                /\ gui' = Released(t, Binding("append", c, TRUE))
           ELSE gui' = [Released(t, Binding("append", c, ~posted)) EXCEPT
                           !.issued = Issued("send", gui.id.myID,
                                             IF posted THEN "ok" ELSE "error")]
    /\ UNCHANGED <<relayVars, codec, wire, disk, cli>>

\* go_send_message, second half: cs.mu.Lock()
AppendLock(t) ==
    /\ gui.pc = "running" /\ gui.mu = 0 /\ gui.th[t].op = "append"
    /\ gui' = [gui EXCEPT !.mu = t, !.th[t].op = "appending"]
    /\ UNCHANGED <<relayVars, codec, wire, disk, cli>>

\* go_send_message, second half: the append to the history and the unlock.
AppendHistory(t) ==
    /\ Holds(t, "appending")
    /\ LET c == gui.th[t].contact
       IN  IF gui.id.messageHistory.nil
           THEN gui' = [gui EXCEPT !.pc = "crashed", !.panic = "go_send_message"]
           ELSE gui' = [Released(t, Idle) EXCEPT
                           !.id.messageHistory =
                               MapPut(@, c, Append(MapGet(@, c),
                                                   YouPrefix \o GuiText))]
    /\ UNCHANGED <<relayVars, codec, wire, disk, cli>>

\* go_fetch_messages: the relay answers an empty id with 400 and a body that
\* is no JSON, which the client reports; reached says whether http.Get
\* reached the relay.
GuiFetchMessages(t, reached) ==
    /\ Holds(t, "fetchMessages")
    /\ gui' = [Released(t, Idle) EXCEPT
                  !.issued = Issued("fetch", gui.id.myID,
                                    IF reached /\ gui.id.myID # Empty
                                    THEN "ok" ELSE "error")]
    /\ UNCHANGED <<relayVars, codec, wire, disk, cli>>

\* go_is_id_existing and go_get_my_id read cs.myID without cs.mu.
ReadMyID(t, op) ==
    /\ gui.pc = "running" /\ gui.th[t] = Idle
    /\ gui' = [gui EXCEPT !.read =
                  MyIDRead(op, FALSE,
                           IF gui.mu = 0 THEN "none" ELSE gui.th[gui.mu].op)]
    /\ UNCHANGED <<relayVars, codec, wire, disk, cli>>

\* The bindings one thread runs.
Bindings(t) ==
    \/ \E op \in LockedOps, c \in GuiContacts \cup {Empty} : Lock(t, op, c)
    \/ \E priv \in GuiKeys, w \in WriteOutcomes : GuiInitIdentity(t, priv, w)
    \/ AddContact(t)
    \/ GetLocked(t)
    \/ \E ephPriv \in FetchEphemeralKeys, posted \in BOOLEAN :
          GuiSendMessage(t, ephPriv, Zeros(NonceSizeX), posted)
    \/ AppendLock(t)
    \/ AppendHistory(t)
    \/ \E reached \in BOOLEAN : GuiFetchMessages(t, reached)
    \/ \E op \in {"isIDExisting", "getMyID"} : ReadMyID(t, op)

\* The page calls one binding at a time, while the key files change under
\* the GUI client.
GuiNext ==
    \/ Load
    \/ Bindings(1)
    \/ \E priv \in CliKeys, w \in WriteOutcomes : CliInit(priv, w)
    \/ DeleteKeys

GuiSpec == GuiInit /\ [][GuiNext]_vars

\* C14: an init that finds the private key file refuses with the
\* already-exists error and leaves both key files and the identity in memory
\* as they were; an init that creates an identity found no private key file.
C14_RegenerationRefused ==
    LET i == disk.lastInit
    IN  i.by # "none" =>
            /\ i.existed =>
                  /\ i.err = "exists"
                  /\ i.filesKept
                  /\ i.idKept
            /\ i.err = "none" => ~i.existed

\* The GUI client, holding an identity, refused an init over the existing
\* private key file.
C14_Witness ==
    /\ disk.lastInit.by = "gui"
    /\ disk.lastInit.existed
    /\ disk.lastInit.err = "exists"
    /\ gui.id.myID # Empty

\* C20: whenever addContact or the send binding is about to store into
\* messageHistory, the map has been made, and no store has panicked.
C20_HistoryInitialised ==
    /\ gui.panic = "none"
    /\ \A t \in Threads :
          Holds(t, "addContact") \/ Holds(t, "appending") =>
              ~gui.id.messageHistory.nil

\* Once an identity was loaded or created, the stores find the map.
C20_InitialisedWithIdentity ==
    gui.id.myID # Empty => ~gui.id.messageHistory.nil

\* The send binding panicked after an init that wrote the private key file
\* and failed on the public key file.
C20_PartialInitCrash ==
    /\ gui.panic = "go_send_message"
    /\ disk.lastInit.by = "gui"
    /\ disk.lastInit.err = "write"
    /\ ~disk.lastInit.filesKept

(***************************************************************************)
(* The bindings called from several threads at once.                       *)
(***************************************************************************)
RaceNext ==
    \/ Load
    \/ \E t \in Threads : Bindings(t)

RaceSpec == GuiInit /\ [][RaceNext]_vars

\* C17: every read of cs.myID by a binding happens with cs.mu held by the
\* reader, and never while initIdentity holds cs.mu to write it.
C17_MutexHeld ==
    gui.read.op # "none" =>
        /\ gui.read.locked
        /\ gui.read.holder # "initIdentity"

\* getMyID read cs.myID while another thread was inside initIdentity.
C17_ReadDuringInit ==
    /\ gui.read.op = "getMyID"
    /\ gui.read.holder = "initIdentity"

\* The bodies that lock cs.mu exclude each other, and the append of the send
\* binding adds exactly one entry to what is stored when it runs.
C17_AppendsKept ==
    [][\A t \in Threads :
          AppendHistory(t) /\ gui'.pc = "running" =>
              LET c == gui.th[t].contact
              IN  /\ gui.mu = t
                  /\ MapGet(gui'.id.messageHistory, c)
                       = Append(MapGet(gui.id.messageHistory, c),
                                YouPrefix \o GuiText)]_vars

(***************************************************************************)
(* The command-line client: each run is one command.                       *)
(***************************************************************************)
\* priv, _ := os.ReadFile(privPath); pub, _ := os.ReadFile(pubPath);
\* myID := hex.EncodeToString(pub): a file that cannot be read gives nil.
cliIdentity(d) ==
    LET priv == IF d.priv = Absent THEN <<>> ELSE d.priv
        pub == IF d.pub = Absent THEN <<>> ELSE d.pub
    IN  [priv |-> priv, pub |-> pub, myID |-> HexEncode(pub)]

\* The send command up to http.Post. Every error is dropped: toPub is what
\* hex.DecodeString decoded before its error, shared is nil after an error
\* of X25519, and aead is the nil interface after an error of NewX, on
\* which aead.Seal panics.
cliSend(myID, toID, msg, ephPriv, nonce) ==
    LET ephPub == X25519(ephPriv, Basepoint)
        toPub == HexDecode(toID)
        shared == X25519(ephPriv, toPub.bytes)
        aead == NewX(shared.out)
        ct == AeadSeal(aead.key, nonce, StringToBytes(msg))
        packet == EncryptedMessage(myID, toID, B64Encode(ephPub.out),
                                   B64Encode(nonce), B64Encode(ct.out))
        pjson == PacketMarshal(packet)
    IN  IF aead.err THEN [outcome |-> "panic", body |-> NoBody]
        ELSE [outcome |-> "done",
              body |-> [to_id |-> toID, from_id |-> myID,
                        packet |-> B64Encode(StringToBytes(pjson))]]

\* A run of the command-line client: the command, (ghost) whether both key
\* files were there, the recipient, the request issued and how the run
\* ended: "done" (a normal exit), "panic", or "no identity" (the message of
\* the id command).
CliRun(cmd, found, toID, issued, outcome) ==
    [pc |-> "exited", cmd |-> cmd, found |-> found, toID |-> toID,
     issued |-> issued, outcome |-> outcome]

\* A call of sendMessage of the GUI client: the recipient, the error
\* returned and whether http.Post was called.
SealCall(toID, err, posted) ==
    [pc |-> "returned", toID |-> toID, err |-> err, posted |-> posted]

GoodID == HexEncode(PublicOf([i \in 1..KeySize |-> i]))

\* The recipient IDs typed: an ID, an ID followed by one or two characters
\* that are no hexadecimal digits, a string that is no hexadecimal, a short
\* key, and the low-order point.
Recipients ==
    {GoodID, GoodID \o <<"z">>, GoodID \o <<"z", "z">>, <<"n", "o">>,
     <<"a", "b">>, HexEncode(Zeros(KeySize))}

\* The ID decodes to a public key of KeySize bytes that is no low-order
\* point.
ValidRecipient(toID) ==
    LET p == HexDecode(toID)
    IN  /\ ~p.err
        /\ Len(p.bytes) = KeySize
        /\ \A e \in FetchEphemeralKeys : ~X25519(e, p.bytes).err

IdentityFound == disk.priv # Absent /\ disk.pub # Absent

CliInitState ==
    /\ store = EmptyBucket /\ now = StartNano /\ reqs = <<>> /\ log = <<>>
    /\ lastTx = Nil /\ faults = 0
    /\ codec = CodecOff /\ gui = Off
    /\ wire = Off /\ cli = Off
    /\ disk = KeyFiles(Absent, Absent, NoInit)

\* client send <to_id> <message>: "Message sent." is printed whatever
\* http.Post returned.
CliSend(toID, ephPriv, nonce, reached) ==
    /\ LET id == cliIdentity(disk)
           r == cliSend(id.myID, toID, GuiText, ephPriv, nonce)
       IN  cli' = CliRun("send", IdentityFound, toID,
                         IF r.outcome = "panic" THEN NoRequest
                         ELSE Issued("send", r.body.from_id,
                                     IF reached THEN "ok" ELSE "error"),
                         r.outcome)
    /\ UNCHANGED <<relayVars, codec, wire, disk, gui>>

\* client fetch: resp is nil when http.Get failed, and resp.Body panics;
\* the relay answers an empty id with 400 and a body that json.Unmarshal
\* rejects, which leaves raw empty and prints nothing.
CliFetch(reached) ==
    /\ LET id == cliIdentity(disk)
       IN  cli' = CliRun("fetch", IdentityFound, Empty,
                         Issued("fetch", id.myID,
                                IF reached /\ id.myID # Empty
                                THEN "ok" ELSE "error"),
                         IF reached THEN "done" ELSE "panic")
    /\ UNCHANGED <<relayVars, codec, wire, disk, gui>>

\* client id
CliId ==
    /\ cli' = CliRun("id", IdentityFound, Empty, NoRequest,
                     IF disk.pub = Absent THEN "no identity" ELSE "done")
    /\ UNCHANGED <<relayVars, codec, wire, disk, gui>>

\* sendMessage of the GUI client for the same recipients.
GuiSeal(toID, ephPriv, nonce) ==
    /\ LET r == sendMessage(cliIdentity(disk).myID, toID, GuiText, ephPriv, nonce)
       IN  wire' = SealCall(toID, r.err, ~r.err)
    /\ UNCHANGED <<relayVars, codec, disk, gui, cli>>

CliNext ==
    \/ \E priv \in CliKeys, w \in WriteOutcomes : CliInit(priv, w)
    \/ DeleteKeys
    \/ \E toID \in Recipients, ephPriv \in FetchEphemeralKeys,
          reached \in BOOLEAN :
          CliSend(toID, ephPriv, Zeros(NonceSizeX), reached)
    \/ \E reached \in BOOLEAN : CliFetch(reached)
    \/ CliId
    \/ \E toID \in Recipients, ephPriv \in FetchEphemeralKeys :
          GuiSeal(toID, ephPriv, Zeros(NonceSizeX))

CliSpec == CliInitState /\ [][CliNext]_vars

\* C15: a send to a recipient ID that is no valid public key fails and
\* posts nothing, in the command-line client and in the GUI client.
C15_BadRecipientFails ==
    /\ cli.pc = "exited" /\ cli.cmd = "send" /\ ~ValidRecipient(cli.toID) =>
          cli.outcome # "done" /\ cli.issued = NoRequest
    /\ wire.pc = "returned" /\ ~ValidRecipient(wire.toID) =>
          wire.err /\ ~wire.posted

\* The GUI client alone: sendMessage returns an error for a bad recipient
\* and posts nothing.
C15_GuiRejects ==
    wire.pc = "returned" /\ ~ValidRecipient(wire.toID) =>
        wire.err /\ ~wire.posted

\* The command-line client posted a packet for an ID that is no
\* hexadecimal string.
C15_PostedToBadID ==
    /\ cli.pc = "exited" /\ cli.cmd = "send"
    /\ HexDecode(cli.toID).err
    /\ cli.issued.kind = "send"

\* C19: a send or fetch run without the persisted identity ends in a
\* failure and issues no request, and no request carries an empty from_id
\* or id.
C19_MissingIdentityFails ==
    cli.pc = "exited" /\ cli.cmd \in {"send", "fetch"} =>
        /\ ~cli.found => cli.outcome # "done" /\ cli.issued = NoRequest
        /\ cli.issued # NoRequest => cli.issued.id # Empty

\* Without identity the fetch command asked the relay for the empty id and
\* exited normally.
C19_EmptyFetch ==
    /\ cli.pc = "exited" /\ cli.cmd = "fetch" /\ ~cli.found
    /\ cli.issued = Issued("fetch", Empty, "error")
    /\ cli.outcome = "done"

(***************************************************************************)
(* The contact list and the history under addContact and the send binding. *)
(***************************************************************************)
NoDuplicates(seq) ==
    \A i, j \in DOMAIN seq : seq[i] = seq[j] => i = j

\* The stored history of every contact is kept, in order, by the step.
HistoryKept ==
    \A c \in GuiContacts :
        IsPrefix(MapGet(gui.id.messageHistory, c),
                 MapGet(gui'.id.messageHistory, c))

\* C21: every addContact and every append of the send binding that returns
\* leaves the contact list without a duplicate and keeps the entries stored
\* for each contact, in append order.
C21_AddContactPreserves ==
    [][\A t \in Threads :
          (AddContact(t) \/ AppendHistory(t)) /\ gui'.pc = "running" =>
              /\ NoDuplicates(gui'.id.contacts)
              /\ HistoryKept]_vars

\* The append of the send binding alone keeps the contact list and the
\* entries stored.
C21_AppendPreserves ==
    [][\A t \in Threads :
          AppendHistory(t) /\ gui'.pc = "running" =>
              /\ gui'.id.contacts = gui.id.contacts
              /\ HistoryKept]_vars

\* The history half of C21 alone: addContact never discards an entry that
\* is stored for a contact.
C21_KnownContactKeepsHistory ==
    [][\A t \in Threads :
          AddContact(t) /\ gui'.pc = "running" => HistoryKept]_vars

\* The contact list holds one contact twice.
C21_DuplicateContact ==
    /\ gui.pc = "running"
    /\ ~NoDuplicates(gui.id.contacts)

\* The step is cs.sendMessage of the send binding on thread t.
SendReturns(t) ==
    \E ephPriv \in FetchEphemeralKeys, posted \in BOOLEAN :
        GuiSendMessage(t, ephPriv, Zeros(NonceSizeX), posted)

\* The step stores exactly one "[You]: msg" entry after those of contact c.
OneEntryAppended(c) ==
    MapGet(gui'.id.messageHistory, c)
        = Append(MapGet(gui.id.messageHistory, c), YouPrefix \o GuiText)

\* C22: whatever sendMessage returns, the send binding goes on to its
\* append without storing anything yet, and the append stores exactly one
\* entry for the contact.
C22_AppendPerInvocation ==
    [][\A t \in Threads :
          /\ SendReturns(t) =>
                /\ gui'.th[t].op = "append"
                /\ gui'.id.messageHistory = gui.id.messageHistory
          /\ AppendHistory(t) => OneEntryAppended(gui.th[t].contact)]_vars

\* The same where messageHistory was made by loadIdentity or initIdentity.
C22_AppendedOnceMapMade ==
    [][\A t \in Threads :
          /\ SendReturns(t) =>
                /\ gui'.th[t].op = "append"
                /\ gui'.id.messageHistory = gui.id.messageHistory
          /\ AppendHistory(t) /\ ~gui.id.messageHistory.nil =>
                /\ gui'.pc = "running"
                /\ OneEntryAppended(gui.th[t].contact)]_vars

\* The binding is about to append after sendMessage returned an error, and
\* after it returned nil.
C22_AppendAfterError ==
    \E t \in Threads :
        Holds(t, "appending") /\ gui.th[t].err /\ ~gui.id.messageHistory.nil

C22_AppendAfterSuccess ==
    \E t \in Threads :
        Holds(t, "appending") /\ ~gui.th[t].err /\ ~gui.id.messageHistory.nil

====
